---- MODULE Spec2Model ----
(***************************************************************************)
(* Model of the CryptoStrategyLab backtest engines.                        *)
(*                                                                         *)
(*   code/strategies/tools.py       Position, behaviors, equity sampler    *)
(*   code/strategies/simple_sma.py  single-entry engine ("sma")            *)
(*   code/strategies/envelope.py    multi-leg envelope engine ("env")      *)
(*                                                                         *)
(* Numbers.  The program computes in floating point; the model computes    *)
(* in fixed point over the integers.  Prices are in tenths of a price      *)
(* unit, money in whole units, amounts in 1/AmountScale of a unit per      *)
(* price tick, rates in 1/RateDen, percentages in 1/100.  Every division   *)
(* is the floor division of the same quotient the code forms.  None is     *)
(* Python's None, NaN a float NaN (every ordering comparison with it is    *)
(* False).                                                                 *)
(***************************************************************************)
EXTENDS Integers, Sequences, FiniteSets, TLC

VARIABLES
    params,                       \* self.params plus the run_backtest arguments
    pc,                           \* "running" | "liquidated" | "crashed" | "done"
    n_bar,                        \* number of rows of self.data consumed so far
    row,                          \* the row most recently handed to evaluate_orders
    position,                     \* self.position (a ut.Position)
    balance,                      \* self.balance
    trades_info,                  \* self.trades_info
    equity_record,                \* self.equity_record
    previous_equity_update_time,  \* self.previous_equity_update_time
    good_to_trade,                \* envelope: self.good_to_trade
    position_was_closed,          \* envelope: self.position_was_closed
    n_bands_hit,                  \* envelope: self.n_bands_hit
    last_position_side,           \* envelope: self.last_position_side
    fills,                        \* history: the legs filled while evaluating `row`
    legs,                         \* history: the legs filled since the last Position.open
    pre,                          \* history: the engine state when `row` was handed over
    data,                         \* self.data where the rows are fixed ahead of the runs
    run,                          \* which call of run_backtest on this instance is under way
    first                         \* history: what the first call of run_backtest produced

vars == << params, pc, n_bar, row, position, balance, trades_info, equity_record,
           previous_equity_update_time, good_to_trade, position_was_closed,
           n_bands_hit, last_position_side, fills, legs, pre, data, run, first >>

-----------------------------------------------------------------------------
(* Bounds and numeric representation *)

MaxBars == 4

None == -999999999
NaN == -999999998
Undefined == "undefined"

AmountScale == 10 * 10
RateDen == 10 * 100

\* datetime(1900, 1, 1), the origin of the model's clock (hours)
Epoch == 0
\* equity_update_interval: pd.Timedelta(days=1) and pd.Timedelta(hours=6)
SmaEquityInterval == 24
EnvEquityInterval == 6

-----------------------------------------------------------------------------
(* tools.py : position behaviors *)

LongCalculatePnl(pos, close_price, amount) ==
    (amount * (close_price - pos.open_price)) \div AmountScale

\* the short PnL with the sign of a long
ShortCalculatePnl_as_long(pos, close_price, amount) ==
    (amount * (close_price - pos.open_price)) \div AmountScale

ShortCalculatePnl(pos, close_price, amount) ==
    (amount * (pos.open_price - close_price)) \div AmountScale

LongCalculateLiquidationPrice(pos, price) ==
    (price * (pos.leverage - 1)) \div pos.leverage

ShortCalculateLiquidationPrice(pos, price) ==
    (price * (pos.leverage + 1)) \div pos.leverage

\* the long stop-loss tested against the bar's close
LongCheckForSl_on_close(pos, r) == r.close <= pos.sl_price

LongCheckForSl(pos, r) == r.low <= pos.sl_price
LongCheckForTp(pos, r) == r.high >= pos.tp_price
LongCheckForLiquidation(pos, r) == r.low <= pos.liquidation_price

ShortCheckForSl(pos, r) == r.high >= pos.sl_price
ShortCheckForTp(pos, r) == r.low <= pos.tp_price
ShortCheckForLiquidation(pos, r) == r.high >= pos.liquidation_price

(* tools.py : Position, dispatching on self.behavior *)

calculate_pnl(pos, price, amount) ==
    IF pos.behavior = "long" THEN LongCalculatePnl(pos, price, amount)
                             ELSE ShortCalculatePnl(pos, price, amount)

calculate_liquidation_price(pos, price) ==
    IF pos.behavior = "long" THEN LongCalculateLiquidationPrice(pos, price)
                             ELSE ShortCalculateLiquidationPrice(pos, price)

check_for_liquidation(pos, r) ==
    IF pos.behavior = "long" THEN LongCheckForLiquidation(pos, r)
                             ELSE ShortCheckForLiquidation(pos, r)

check_for_sl(pos, r) ==
    IF pos.behavior = "long" THEN LongCheckForSl(pos, r)
                             ELSE ShortCheckForSl(pos, r)

check_for_tp(pos, r) ==
    IF pos.behavior = "long" THEN LongCheckForTp(pos, r)
                             ELSE ShortCheckForTp(pos, r)

PositionInit(leverage, open_fee_rate, close_fee_rate) ==
    [ leverage |-> leverage,
      open_fee_rate |-> open_fee_rate,
      close_fee_rate |-> close_fee_rate,
      side |-> "None",
      open_time |-> None, close_time |-> None,
      open_price |-> None, close_price |-> None,
      open_reason |-> "None", close_reason |-> "None",
      open_fee |-> None, close_fee |-> None,
      initial_margin |-> None,
      open_notional_value |-> None, close_notional_value |-> None,
      amount |-> None,
      net_pnl |-> None, net_pnl_pct |-> None,
      sl_price |-> None, tp_price |-> None,
      liquidation_price |-> None,
      behavior |-> "None" ]

calculate_opening_metrics(pos, initial_margin, open_price) ==
    LET gross == initial_margin * pos.leverage
        open_fee == (gross * pos.open_fee_rate) \div RateDen
        open_notional_value == gross - open_fee
    IN  [ open_notional_value |-> open_notional_value,
          open_fee |-> open_fee,
          amount |-> (open_notional_value * AmountScale) \div open_price ]

PositionOpen(pos, open_time, side, initial_margin, open_price, open_reason, sl_price, tp_price) ==
    LET bound == [pos EXCEPT !.open_time = open_time,
                             !.side = side,
                             !.initial_margin = initial_margin,
                             !.open_price = open_price,
                             !.open_reason = open_reason,
                             !.sl_price = sl_price,
                             !.tp_price = tp_price,
                             !.behavior = IF side = "long" THEN "long" ELSE "short"]
        metrics == calculate_opening_metrics(bound, initial_margin, open_price)
    IN  [bound EXCEPT !.open_fee = metrics.open_fee,
                      !.open_notional_value = metrics.open_notional_value,
                      !.amount = metrics.amount,
                      !.liquidation_price = calculate_liquidation_price(bound, open_price)]

\* Position.close divides by initial_margin: a ZeroDivisionError when it is 0,
\* raised after the other close fields are set and before side is reset.
PositionCloseRaises(pos) == pos.initial_margin = 0

PositionCloseRaised(pos, time, price, reason) ==
    LET pnl == calculate_pnl(pos, price, pos.amount)
        close_notional_value == pos.open_notional_value + pnl
        close_fee == (close_notional_value * pos.close_fee_rate) \div RateDen
    IN  [pos EXCEPT !.close_time = time,
                    !.close_price = price,
                    !.close_reason = reason,
                    !.close_notional_value = close_notional_value,
                    !.close_fee = close_fee,
                    !.net_pnl = pnl - pos.open_fee - close_fee]

\* Position.close taking the net PnL as what the closed notional leaves over the margin
PositionClose_against_margin(pos, time, price, reason) ==
    LET pnl == calculate_pnl(pos, price, pos.amount)
        close_notional_value == pos.open_notional_value + pnl
        close_fee == (close_notional_value * pos.close_fee_rate) \div RateDen
        net_pnl == close_notional_value - pos.initial_margin - close_fee
    IN  [pos EXCEPT !.close_time = time,
                    !.close_price = price,
                    !.close_reason = reason,
                    !.close_notional_value = close_notional_value,
                    !.close_fee = close_fee,
                    !.net_pnl = net_pnl,
                    !.net_pnl_pct = (net_pnl * 100) \div pos.initial_margin,
                    !.side = "None"]

PositionClose(pos, time, price, reason) ==
    LET pnl == calculate_pnl(pos, price, pos.amount)
        close_notional_value == pos.open_notional_value + pnl
        close_fee == (close_notional_value * pos.close_fee_rate) \div RateDen
        net_pnl == pnl - pos.open_fee - close_fee
    IN  [pos EXCEPT !.close_time = time,
                    !.close_price = price,
                    !.close_reason = reason,
                    !.close_notional_value = close_notional_value,
                    !.close_fee = close_fee,
                    !.net_pnl = net_pnl,
                    !.net_pnl_pct = (net_pnl * 100) \div pos.initial_margin,
                    !.side = "None"]

\* Position.add does arithmetic on open_price and amount: a TypeError while they
\* are still None (never opened), a ZeroDivisionError when the amounts sum to 0.
PositionAddRaises(pos, initial_margin, price) ==
    \/ pos.open_price = None
    \/ pos.amount + calculate_opening_metrics(pos, initial_margin, price).amount = 0

\* Position.add averaging the two prices without their amounts
PositionAdd_plain_average(pos, initial_margin, price, reason) ==
    LET metrics == calculate_opening_metrics(pos, initial_margin, price)
        open_price == (pos.open_price + price) \div 2
    IN  [pos EXCEPT !.open_reason = reason,
                    !.open_price = open_price,
                    !.initial_margin = pos.initial_margin + initial_margin,
                    !.open_fee = pos.open_fee + metrics.open_fee,
                    !.open_notional_value = pos.open_notional_value + metrics.open_notional_value,
                    !.amount = pos.amount + metrics.amount,
                    !.liquidation_price =
                        calculate_liquidation_price([pos EXCEPT !.open_price = open_price], open_price)]

\* Position.add leaving the liquidation price of the first leg in place
PositionAdd_stale_liquidation(pos, initial_margin, price, reason) ==
    LET metrics == calculate_opening_metrics(pos, initial_margin, price)
        open_price == (pos.open_price * pos.amount + price * metrics.amount)
                          \div (pos.amount + metrics.amount)
    IN  [pos EXCEPT !.open_reason = reason,
                    !.open_price = open_price,
                    !.initial_margin = pos.initial_margin + initial_margin,
                    !.open_fee = pos.open_fee + metrics.open_fee,
                    !.open_notional_value = pos.open_notional_value + metrics.open_notional_value,
                    !.amount = pos.amount + metrics.amount]

PositionAdd(pos, initial_margin, price, reason) ==
    LET metrics == calculate_opening_metrics(pos, initial_margin, price)
        open_price == (pos.open_price * pos.amount + price * metrics.amount)
                          \div (pos.amount + metrics.amount)
    IN  [pos EXCEPT !.open_reason = reason,
                    !.open_price = open_price,
                    !.initial_margin = pos.initial_margin + initial_margin,
                    !.open_fee = pos.open_fee + metrics.open_fee,
                    !.open_notional_value = pos.open_notional_value + metrics.open_notional_value,
                    !.amount = pos.amount + metrics.amount,
                    !.liquidation_price =
                        calculate_liquidation_price([pos EXCEPT !.open_price = open_price], open_price)]

PositionInfo(pos) ==
    [ open_time |-> pos.open_time, close_time |-> pos.close_time,
      open_reason |-> pos.open_reason, close_reason |-> pos.close_reason,
      open_price |-> pos.open_price, close_price |-> pos.close_price,
      initial_margin |-> pos.initial_margin,
      net_pnl |-> pos.net_pnl, net_pnl_pct |-> pos.net_pnl_pct,
      open_notional_value |-> pos.open_notional_value,
      close_notional_value |-> pos.close_notional_value,
      amount |-> pos.amount,
      open_fee |-> pos.open_fee, close_fee |-> pos.close_fee,
      sl_price |-> pos.sl_price, tp_price |-> pos.tp_price,
      liquidation_price |-> pos.liquidation_price ]

(* tools.py : update_equity_record; returns the new last-sample time and record *)

\* the sampler appending its sample and handing back the time it was given
update_equity_record_keeps_time(time, pos, bal, price, prev_time, interval, record) ==
    IF time - prev_time >= interval
    THEN LET unrealized_pnl == calculate_pnl(pos, price, pos.amount)
             close_fee == ((pos.open_notional_value + unrealized_pnl) * pos.close_fee_rate)
                              \div RateDen
             equity == IF pos.side # "None"
                       THEN bal + pos.initial_margin + unrealized_pnl - pos.open_fee - close_fee
                       ELSE bal
         IN  [ time |-> prev_time,
               record |-> Append(record, [time |-> time, price |-> price, equity |-> equity]) ]
    ELSE [ time |-> prev_time, record |-> record ]

\* the sampler handing back the bar's time whether or not it took a sample
update_equity_record_always_stamps(time, pos, bal, price, prev_time, interval, record) ==
    IF time - prev_time >= interval
    THEN LET unrealized_pnl == calculate_pnl(pos, price, pos.amount)
             close_fee == ((pos.open_notional_value + unrealized_pnl) * pos.close_fee_rate)
                              \div RateDen
             equity == IF pos.side # "None"
                       THEN bal + pos.initial_margin + unrealized_pnl - pos.open_fee - close_fee
                       ELSE bal
         IN  [ time |-> time,
               record |-> Append(record, [time |-> time, price |-> price, equity |-> equity]) ]
    ELSE [ time |-> time, record |-> record ]

update_equity_record(time, pos, bal, price, prev_time, interval, record) ==
    IF time - prev_time >= interval
    THEN LET unrealized_pnl == calculate_pnl(pos, price, pos.amount)
             close_fee == ((pos.open_notional_value + unrealized_pnl) * pos.close_fee_rate)
                              \div RateDen
             equity == IF pos.side # "None"
                       THEN bal + pos.initial_margin + unrealized_pnl - pos.open_fee - close_fee
                       ELSE bal
         IN  [ time |-> time,
               record |-> Append(record, [time |-> time, price |-> price, equity |-> equity]) ]
    ELSE [ time |-> prev_time, record |-> record ]

-----------------------------------------------------------------------------
(* The state one evaluate_orders call works on.  status is "ok" while the    *)
(* call runs on, "liquidated" after sys.exit(), "crashed" after an uncaught  *)
(* exception; both end the run where they happen.                            *)

EngineState ==
    [ position |-> position,
      balance |-> balance,
      trades_info |-> trades_info,
      good_to_trade |-> good_to_trade,
      position_was_closed |-> position_was_closed,
      n_bands_hit |-> n_bands_hit,
      last_position_side |-> last_position_side,
      fills |-> << >>,
      legs |-> legs,
      status |-> "ok" ]

BarTime(p, k) == p.first_time + k * p.timeframe

\* What the history records of one leg: its band (1-based), side, the Position
\* method that filled it, its margin and the balance before the margin was debited.
Leg(band, side, call, margin, balance_before) ==
    [ band |-> band, side |-> side, call |-> call, margin |-> margin,
      balance_before |-> balance_before ]

(* close_trade is the same code in simple_sma.py and envelope.py, except that *)
(* the envelope ledger entry drops tp_price.                                  *)

\* close_trade crediting the net PnL alone, the margin never returned
close_trade_net_only(st, time, price, reason) ==
    IF PositionCloseRaises(st.position)
    THEN [st EXCEPT !.position = PositionCloseRaised(st.position, time, price, reason),
                    !.status = "crashed"]
    ELSE LET closed == PositionClose(st.position, time, price, reason)
             close_balance == st.balance + closed.net_pnl
             trade_info == [ info |-> PositionInfo(closed),
                             open_balance |-> st.balance,
                             close_balance |-> close_balance ]
         IN  [st EXCEPT !.position = closed,
                        !.balance = close_balance,
                        !.trades_info = Append(st.trades_info, trade_info)]

close_trade(st, time, price, reason) ==
    IF PositionCloseRaises(st.position)
    THEN [st EXCEPT !.position = PositionCloseRaised(st.position, time, price, reason),
                    !.status = "crashed"]
    ELSE LET closed == PositionClose(st.position, time, price, reason)
             close_balance == st.balance + closed.initial_margin + closed.net_pnl
             trade_info == [ info |-> PositionInfo(closed),
                             open_balance |-> st.balance,
                             close_balance |-> close_balance ]
         IN  [st EXCEPT !.position = closed,
                        !.balance = close_balance,
                        !.trades_info = Append(st.trades_info, trade_info)]

-----------------------------------------------------------------------------
(* simple_sma.py *)

\* populate_long_signals / populate_short_signals.  A row carries fast_vs_slow,
\* the ordering of fastMA and slowMA on it ("nan" while either is NaN), and
\* close_vs_trend, the ordering of close and trend; prev is the fast_vs_slow of
\* the row before (the .shift(1) of the code).
SmaOpenLong(r, prev) ==
    r.fast_vs_slow = "gt" /\ prev \in {"lt", "eq"} /\ r.close_vs_trend = "gt"

SmaCloseLong(r) == r.fast_vs_slow = "lt"

SmaOpenShort(r, prev) ==
    r.fast_vs_slow = "lt" /\ prev \in {"gt", "eq"} /\ r.close_vs_trend = "lt"

SmaCloseShort(r) == r.fast_vs_slow = "gt"

SmaCalculateLongTpPrice(r) == (r.close * 130) \div 100
SmaCalculateLongSlPrice(r) == (r.close * 85) \div 100
SmaCalculateShortTpPrice(r) == (r.close * 70) \div 100
SmaCalculateShortSlPrice(r) == (r.close * 115) \div 100

\* calculate_initial_margin reads params['exposure'] under the key
\* position_size_exposure (a KeyError when exposure is absent) and divides by
\* the stop distance; with no sizing key it returns None, and the caller's
\* `self.balance -= initial_margin` is a TypeError.
SmaInitialMarginRaises(p, price, stop_loss_price) ==
    IF "position_size_percentage" \in p.keys
    THEN FALSE
    ELSE IF "position_size_exposure" \in p.keys
    THEN "exposure" \notin p.keys \/ price = stop_loss_price
    ELSE "position_size_fixed_amount" \notin p.keys

SmaCalculateInitialMargin(p, bal, price, stop_loss_price) ==
    IF "position_size_percentage" \in p.keys
    THEN (bal * p.position_size_percentage) \div 100
    ELSE IF "position_size_exposure" \in p.keys
    THEN LET amount_at_risk == (bal * p.exposure) \div 100
             dist == IF price >= stop_loss_price THEN price - stop_loss_price
                                                 ELSE stop_loss_price - price
         IN  (amount_at_risk * price) \div dist
    ELSE p.position_size_fixed_amount

SmaOpen(st, p, time, r, side) ==
    LET price == r.close
        sl_price == IF side = "long" THEN SmaCalculateLongSlPrice(r)
                                     ELSE SmaCalculateShortSlPrice(r)
        tp_price == IF side = "long" THEN SmaCalculateLongTpPrice(r)
                                     ELSE SmaCalculateShortTpPrice(r)
        initial_margin == SmaCalculateInitialMargin(p, st.balance, price, sl_price)
    IN  IF SmaInitialMarginRaises(p, price, sl_price)
        THEN [st EXCEPT !.status = "crashed"]
        ELSE [st EXCEPT !.balance = st.balance - initial_margin,
                        !.position = PositionOpen(st.position, time, side, initial_margin, price,
                                                  IF side = "long" THEN "Open long" ELSE "Open short",
                                                  sl_price, tp_price),
                        !.fills = Append(st.fills, Leg(1, side, "open", initial_margin, st.balance)),
                        !.legs = << Leg(1, side, "open", initial_margin, st.balance) >>]

\* the short side never disabled
SmaIgnoreShorts_never(p) == FALSE

SmaIgnoreShorts(p) == p.mode = "long"
SmaIgnoreLongs(p) == p.mode = "short"

\* Sma_evaluate_orders with take-profit tested ahead of stop-loss and liquidation
Sma_evaluate_orders_tp_first(st, p, time, r, prev) ==
    IF st.position.side \in {"long", "short"}
    THEN LET sd == st.position.side
         IN  IF check_for_tp(st.position, r)
             THEN close_trade(st, time, st.position.tp_price, IF sd = "long" THEN "TP long" ELSE "TP short")
             ELSE IF check_for_sl(st.position, r)
             THEN close_trade(st, time, st.position.sl_price, IF sd = "long" THEN "SL long" ELSE "SL short")
             ELSE IF check_for_liquidation(st.position, r)
             THEN [st EXCEPT !.status = "liquidated"]
             ELSE IF (sd = "long" /\ SmaCloseLong(r)) \/ (sd = "short" /\ SmaCloseShort(r))
             THEN close_trade(st, time, r.close, IF sd = "long" THEN "Exit long" ELSE "Exit short")
             ELSE st
    ELSE IF ~SmaIgnoreLongs(p) /\ SmaOpenLong(r, prev)
         THEN SmaOpen(st, p, time, r, "long")
         ELSE IF ~SmaIgnoreShorts(p) /\ SmaOpenShort(r, prev)
         THEN SmaOpen(st, p, time, r, "short")
         ELSE st

Sma_evaluate_orders(st, p, time, r, prev) ==
    IF st.position.side = "long"
    THEN IF check_for_sl(st.position, r)
         THEN close_trade(st, time, st.position.sl_price, "SL long")
         ELSE IF check_for_liquidation(st.position, r)
         THEN [st EXCEPT !.status = "liquidated"]
         ELSE IF check_for_tp(st.position, r)
         THEN close_trade(st, time, st.position.tp_price, "TP long")
         ELSE IF SmaCloseLong(r)
         THEN close_trade(st, time, r.close, "Exit long")
         ELSE st
    ELSE IF st.position.side = "short"
    THEN IF check_for_sl(st.position, r)
         THEN close_trade(st, time, st.position.sl_price, "SL short")
         ELSE IF check_for_liquidation(st.position, r)
         THEN [st EXCEPT !.status = "liquidated"]
         ELSE IF check_for_tp(st.position, r)
         THEN close_trade(st, time, st.position.tp_price, "TP short")
         ELSE IF SmaCloseShort(r)
         THEN close_trade(st, time, r.close, "Exit short")
         ELSE st
    ELSE IF ~SmaIgnoreLongs(p) /\ SmaOpenLong(r, prev)
         THEN SmaOpen(st, p, time, r, "long")
         ELSE IF ~SmaIgnoreShorts(p) /\ SmaOpenShort(r, prev)
         THEN SmaOpen(st, p, time, r, "short")
         ELSE st

-----------------------------------------------------------------------------
(* envelope.py *)

NBands(p) == Len(p.envelopes)

\* populate_indicators: band_high_i = average / (1 - e), band_low_i = average * (1 - e)
BandHigh(p, r, i) ==
    IF r.average = NaN THEN NaN ELSE (r.average * 100) \div (100 - p.envelopes[i])

BandLow(p, r, i) ==
    IF r.average = NaN THEN NaN ELSE (r.average * (100 - p.envelopes[i])) \div 100

\* populate_long_signals / populate_short_signals: the columns of one side exist
\* only when set_trade_mode did not disable it.
HasLongSignals(p) == p.mode # "short"
HasShortSignals(p) == p.mode # "long"

EnvCloseLong(r) == r.average # NaN /\ r.high >= r.average
EnvOpenLong(p, r, i) == r.average # NaN /\ r.low <= BandLow(p, r, i)
EnvCloseShort(r) == r.average # NaN /\ r.low <= r.average
EnvOpenShort(p, r, i) == r.average # NaN /\ r.high >= BandHigh(p, r, i)

EnvCalculateLongSlPrice(p, avg_open_price) == (avg_open_price * (100 - p.stop_loss_pct)) \div 100
EnvCalculateShortSlPrice(p, avg_open_price) == (avg_open_price * (100 + p.stop_loss_pct)) \div 100

EnvSlPrice(p, side, avg_open_price) ==
    IF side = "long" THEN EnvCalculateLongSlPrice(p, avg_open_price)
                     ELSE EnvCalculateShortSlPrice(p, avg_open_price)

\* round(x / N, 4), in units of 1/10000
Round4Div(x100, N) == (x100 * 100 * 2 + N) \div (2 * N)

EnvSizingRaises(p) ==
    /\ "position_size_percentage" \notin p.keys
    /\ "position_size_fixed_amount" \notin p.keys

EnvInitialMargin(p, snapshot) ==
    IF "position_size_percentage" \in p.keys
    THEN (snapshot * Round4Div(p.position_size_percentage, NBands(p))) \div 10000
    ELSE Round4Div(p.position_size_fixed_amount * 100, NBands(p)) \div 10000

\* the gate re-opening on a close that only touches the average
EnvReopens_nonstrict(lps, r) ==
    \/ lps = "long" /\ r.average # NaN /\ r.close >= r.average
    \/ lps = "short" /\ r.average # NaN /\ r.close <= r.average

\* lines 76-80: the gate re-opens on the last side's favourable recross.
EnvReopens(lps, r) ==
    \/ lps = "long" /\ r.average # NaN /\ r.close > r.average
    \/ lps = "short" /\ r.average # NaN /\ r.close < r.average

EnvGate(st, r) ==
    LET cleared == [st EXCEPT !.position_was_closed = FALSE]
    IN  IF cleared.good_to_trade THEN cleared
        ELSE IF cleared.last_position_side = Undefined
        THEN [cleared EXCEPT !.status = "crashed"]
        ELSE IF EnvReopens(cleared.last_position_side, r)
        THEN [cleared EXCEPT !.good_to_trade = TRUE]
        ELSE cleared

EnvJumpLong(p, pos, r) ==
    p.has_price_jump /\ r.open * 100 <= pos.open_price * (100 - p.price_jump_pct)

EnvJumpShort(p, pos, r) ==
    p.has_price_jump /\ r.open * 100 >= pos.open_price * (100 + p.price_jump_pct)

\* the guard close leaving the watermark where it was
EnvGuardClose_keeps_watermark(st, time, price, reason) ==
    LET c == close_trade(st, time, price, reason)
    IN  IF c.status # "ok" THEN c
        ELSE [c EXCEPT !.good_to_trade = FALSE]

\* the guard close always priced at the stop
EnvGuardClose_at_stop(st, time, price, reason) ==
    LET c == close_trade(st, time, st.position.sl_price, reason)
    IN  IF c.status # "ok" THEN c
        ELSE [c EXCEPT !.good_to_trade = FALSE, !.n_bands_hit = 0]

\* lines 84-86 and 89-91 (104-106, 109-111): the statements after close_trade
EnvGuardClose(st, time, price, reason) ==
    LET c == close_trade(st, time, price, reason)
    IN  IF c.status # "ok" THEN c
        ELSE [c EXCEPT !.good_to_trade = FALSE, !.n_bands_hit = 0]

\* the signal exit leaving the watermark where it was
EnvSignalClose_keeps_watermark(st, time, price, reason) ==
    LET c == close_trade(st, time, price, reason)
    IN  IF c.status # "ok" THEN c
        ELSE [c EXCEPT !.position_was_closed = TRUE]

\* the signal exit without the position_was_closed mark
EnvSignalClose_unmarked(st, time, price, reason) ==
    LET c == close_trade(st, time, price, reason)
    IN  IF c.status # "ok" THEN c
        ELSE [c EXCEPT !.n_bands_hit = 0]

\* lines 98-100 (118-120)
EnvSignalClose(st, time, price, reason) ==
    LET c == close_trade(st, time, price, reason)
    IN  IF c.status # "ok" THEN c
        ELSE [c EXCEPT !.position_was_closed = TRUE, !.n_bands_hit = 0]

\* lines 82-120
EnvCloses(st, p, time, r) ==
    IF st.position.side = "long"
    THEN IF EnvJumpLong(p, st.position, r)
         THEN EnvGuardClose(st, time, r.open, "CA long")
         ELSE IF check_for_sl(st.position, r)
         THEN EnvGuardClose(st, time, st.position.sl_price, "SL long")
         ELSE IF check_for_liquidation(st.position, r)
         THEN [st EXCEPT !.status = "liquidated"]
         ELSE IF ~HasLongSignals(p)
         THEN [st EXCEPT !.status = "crashed"]
         ELSE IF EnvCloseLong(r)
         THEN EnvSignalClose(st, time, r.average, "Exit long")
         ELSE st
    ELSE IF st.position.side = "short"
    THEN IF EnvJumpShort(p, st.position, r)
         THEN EnvGuardClose(st, time, r.open, "CA short")
         ELSE IF check_for_sl(st.position, r)
         THEN EnvGuardClose(st, time, st.position.sl_price, "SL short")
         ELSE IF check_for_liquidation(st.position, r)
         THEN [st EXCEPT !.status = "liquidated"]
         ELSE IF ~HasShortSignals(p)
         THEN [st EXCEPT !.status = "crashed"]
         ELSE IF EnvCloseShort(r)
         THEN EnvSignalClose(st, time, r.average, "Exit short")
         ELSE st
    ELSE st

\* the band's short trigger tested ahead of its long trigger
EnvBandSide_short_first(st, p, r, i) ==
    IF st.position.side # "long" /\ ~HasShortSignals(p) THEN "raise"
    ELSE IF st.position.side # "long" /\ EnvOpenShort(p, r, i) THEN "short"
    ELSE IF st.position.side # "short" /\ ~HasLongSignals(p) THEN "raise"
    ELSE IF st.position.side # "short" /\ EnvOpenLong(p, r, i) THEN "long"
    ELSE "continue"

\* lines 125-134: "long", "short", "continue", or "raise" (the KeyError of a
\* signal column the trade mode never populated).
EnvBandSide(st, p, r, i) ==
    IF st.position.side # "short" /\ ~HasLongSignals(p) THEN "raise"
    ELSE IF st.position.side # "short" /\ EnvOpenLong(p, r, i) THEN "long"
    ELSE IF st.position.side # "long" /\ ~HasShortSignals(p) THEN "raise"
    ELSE IF st.position.side # "long" /\ EnvOpenShort(p, r, i) THEN "short"
    ELSE "continue"

\* a leg added without moving the stop
EnvFill_stale_stop(st, p, time, r, snapshot, i, side) ==
    LET price == IF side = "long" THEN BandLow(p, r, i) ELSE BandHigh(p, r, i)
        reason == IF side = "long" THEN "Open long" ELSE "Open short"
        s1 == [st EXCEPT !.last_position_side = side]
    IN  IF EnvSizingRaises(p) THEN [s1 EXCEPT !.status = "crashed"]
        ELSE
        LET initial_margin == EnvInitialMargin(p, snapshot)
            s2 == [s1 EXCEPT !.balance = s1.balance - initial_margin,
                             !.n_bands_hit = s1.n_bands_hit + 1]
        IN  IF i = 1
            THEN [s2 EXCEPT !.position = PositionOpen(s2.position, time, side, initial_margin, price,
                                                      reason, EnvSlPrice(p, side, price), None),
                            !.fills = Append(s2.fills, Leg(i, side, "open", initial_margin, s1.balance)),
                            !.legs = << Leg(i, side, "open", initial_margin, s1.balance) >>]
            ELSE IF PositionAddRaises(s2.position, initial_margin, price)
            THEN [s2 EXCEPT !.status = "crashed"]
            ELSE [s2 EXCEPT !.position = PositionAdd(s2.position, initial_margin, price, reason),
                            !.fills = Append(s2.fills, Leg(i, side, "add", initial_margin, s1.balance)),
                            !.legs = Append(s2.legs, Leg(i, side, "add", initial_margin, s1.balance))]

\* lines 136-159: one leg at band i (1-based here, i - 1 in the code)
EnvFill(st, p, time, r, snapshot, i, side) ==
    LET price == IF side = "long" THEN BandLow(p, r, i) ELSE BandHigh(p, r, i)
        reason == IF side = "long" THEN "Open long" ELSE "Open short"
        s1 == [st EXCEPT !.last_position_side = side]
    IN  IF EnvSizingRaises(p) THEN [s1 EXCEPT !.status = "crashed"]
        ELSE
        LET initial_margin == EnvInitialMargin(p, snapshot)
            s2 == [s1 EXCEPT !.balance = s1.balance - initial_margin,
                             !.n_bands_hit = s1.n_bands_hit + 1]
        IN  IF i = 1
            THEN [s2 EXCEPT !.position = PositionOpen(s2.position, time, side, initial_margin, price,
                                                      reason, EnvSlPrice(p, side, price), None),
                            !.fills = Append(s2.fills, Leg(i, side, "open", initial_margin, s1.balance)),
                            !.legs = << Leg(i, side, "open", initial_margin, s1.balance) >>]
            ELSE IF PositionAddRaises(s2.position, initial_margin, price)
            THEN [s2 EXCEPT !.status = "crashed"]
            ELSE LET added == PositionAdd(s2.position, initial_margin, price, reason)
                 IN  [s2 EXCEPT !.position = [added EXCEPT !.sl_price =
                                                  EnvSlPrice(p, side, added.open_price)],
                                !.fills = Append(s2.fills, Leg(i, side, "add", initial_margin, s1.balance)),
                                !.legs = Append(s2.legs, Leg(i, side, "add", initial_margin, s1.balance))]

\* the band loop sizing each leg from the balance the earlier legs left
RECURSIVE EnvBandLoop_running_balance(_, _, _, _, _, _)
EnvBandLoop_running_balance(st, p, time, r, snapshot, i) ==
    IF i > NBands(p) \/ st.status # "ok" THEN st
    ELSE LET side == EnvBandSide(st, p, r, i)
         IN  IF side = "raise" THEN [st EXCEPT !.status = "crashed"]
             ELSE IF side = "continue"
             THEN EnvBandLoop_running_balance(st, p, time, r, st.balance, i + 1)
             ELSE LET filled == EnvFill(st, p, time, r, st.balance, i, side)
                  IN  EnvBandLoop_running_balance(filled, p, time, r, filled.balance, i + 1)

\* line 124: for i in range(self.n_bands_hit, len(envelopes)), the range being
\* fixed when the loop starts
RECURSIVE EnvBandLoop(_, _, _, _, _, _)
EnvBandLoop(st, p, time, r, snapshot, i) ==
    IF i > NBands(p) \/ st.status # "ok" THEN st
    ELSE LET side == EnvBandSide(st, p, r, i)
         IN  IF side = "raise" THEN [st EXCEPT !.status = "crashed"]
             ELSE IF side = "continue" THEN EnvBandLoop(st, p, time, r, snapshot, i + 1)
             ELSE EnvBandLoop(EnvFill(st, p, time, r, snapshot, i, side),
                              p, time, r, snapshot, i + 1)

\* the entries evaluated whether or not the gate is open
EnvEntries_ignores_gate(st, p, time, r) ==
    IF st.status = "ok" /\ ~st.position_was_closed
    THEN EnvBandLoop(st, p, time, r, st.balance, st.n_bands_hit + 1)
    ELSE st

\* lines 122-159
EnvEntries(st, p, time, r) ==
    IF st.status = "ok" /\ st.good_to_trade /\ ~st.position_was_closed
    THEN EnvBandLoop(st, p, time, r, st.balance, st.n_bands_hit + 1)
    ELSE st

\* the entries evaluated ahead of the closes
Env_evaluate_orders_entries_first(st, p, time, r) ==
    LET gated == EnvGate(st, r)
    IN  IF gated.status # "ok" THEN gated
        ELSE LET entered == EnvEntries(gated, p, time, r)
             IN  IF entered.status # "ok" THEN entered
                 ELSE EnvCloses(entered, p, time, r)

\* lines 74-159
Env_evaluate_orders(st, p, time, r) ==
    LET gated == EnvGate(st, r)
    IN  IF gated.status # "ok" THEN gated
        ELSE EnvEntries(EnvCloses(gated, p, time, r), p, time, r)

-----------------------------------------------------------------------------
(* Configurations: self.params and the arguments of run_backtest.  keys is   *)
(* the set of sizing keys present in params.                                 *)

BaseConfig ==
    [ engine |-> "sma", mode |-> "both", leverage |-> 1,
      open_fee_rate |-> 1, close_fee_rate |-> 1,
      keys |-> {"position_size_percentage"},
      position_size_percentage |-> 100, position_size_fixed_amount |-> 0, exposure |-> 0,
      envelopes |-> << >>, stop_loss_pct |-> 0,
      has_price_jump |-> FALSE, price_jump_pct |-> 0,
      initial_balance |-> 10000, first_time |-> 1000000, timeframe |-> 12 ]

SmaConfigs ==
    { [BaseConfig EXCEPT !.leverage = 10],
      [BaseConfig EXCEPT !.mode = "long", !.open_fee_rate = 0, !.close_fee_rate = 0,
                         !.keys = {"position_size_fixed_amount"},
                         !.position_size_fixed_amount = 5000],
      [BaseConfig EXCEPT !.mode = "short", !.leverage = 2,
                         !.position_size_percentage = 50] }

EnvBase ==
    [BaseConfig EXCEPT !.engine = "env", !.envelopes = <<10, 20>>, !.stop_loss_pct = 20,
                       !.timeframe = 4]

EnvConfigs ==
    { [EnvBase EXCEPT !.leverage = 10, !.stop_loss_pct = 10,
                      !.has_price_jump = TRUE, !.price_jump_pct = 10],
      [EnvBase EXCEPT !.leverage = 10, !.open_fee_rate = 0, !.close_fee_rate = 0,
                      !.stop_loss_pct = 25,
                      !.keys = {"position_size_fixed_amount"},
                      !.position_size_fixed_amount = 4000],
      [EnvBase EXCEPT !.envelopes = <<20, 30, 10>>, !.stop_loss_pct = 40,
                      !.position_size_percentage = 60],
      [EnvBase EXCEPT !.mode = "long"],
      [EnvBase EXCEPT !.mode = "short"] }

Configs == SmaConfigs \cup EnvConfigs

-----------------------------------------------------------------------------------------------------------------------------------------------------
(* Rows of self.data.  The indicator columns are the .shift(1) of a rolling  *)
(* window, so they are NaN on the first row and on a prefix of the rows      *)
(* ("cold" rows, on which no signal can be true); the rows after are "warm". *)
(* The cold rows are quiet bars at one price; the warm rows range over a     *)
(* price grid chosen so that every trigger of the engines can be hit and     *)
(* missed.                                                                   *)

SmaPrices == {700, 900, 1000, 1300}
EnvPrices == {700, 800, 900, 1000, 1120, 1260}
EnvAverages == {1000}

SmaNoRow == [ high |-> 0, low |-> 0, close |-> 0,
              fast_vs_slow |-> "nan", close_vs_trend |-> "nan" ]

EnvNoRow == [ open |-> 0, high |-> 0, low |-> 0, close |-> 0, average |-> NaN ]

SmaColdRows ==
    { [ high |-> 1000, low |-> 1000, close |-> 1000,
        fast_vs_slow |-> "nan", close_vs_trend |-> "nan" ] }

SmaWarmRows ==
    { r \in [ high : SmaPrices, low : SmaPrices, close : SmaPrices,
              fast_vs_slow : {"lt", "eq", "gt"}, close_vs_trend : {"lt", "gt"} ] :
        r.low <= r.high /\ r.close \in {r.low, r.high} }

SmaRows(last) ==
    IF last = SmaNoRow THEN SmaColdRows
    ELSE IF last.fast_vs_slow = "nan" THEN SmaColdRows \cup SmaWarmRows
    ELSE SmaWarmRows

EnvColdRows ==
    { [ open |-> 1000, high |-> 1000, low |-> 1000, close |-> 1000, average |-> NaN ] }

EnvWarmRows ==
    { r \in [ open : EnvPrices, high : EnvPrices, low : EnvPrices, close : EnvPrices,
              average : EnvAverages ] :
        /\ r.low <= r.high
        /\ \/ r.open = r.low /\ r.close = r.high
           \/ r.open = r.high /\ r.close = r.low }

EnvRows(last) ==
    IF last = EnvNoRow THEN EnvColdRows
    ELSE IF last.average = NaN THEN EnvColdRows \cup EnvWarmRows
    ELSE EnvWarmRows

-----
(* run_backtest *)

\* no call of run_backtest has returned yet
NoRun == [ trades_info |-> << >>, equity_record |-> << >> ]

Snapshot ==
    [ fast_vs_slow |-> IF params.engine = "sma" THEN row.fast_vs_slow ELSE "nan",
      position |-> position, balance |-> balance,
      n_trades |-> Len(trades_info), n_equity |-> Len(equity_record),
      previous_equity_update_time |-> previous_equity_update_time,
      good_to_trade |-> good_to_trade, n_bands_hit |-> n_bands_hit,
      last_position_side |-> last_position_side, pc |-> pc ]

Init ==
    /\ params \in Configs
    /\ pc = "running"
    /\ n_bar = 0
    /\ row = IF params.engine = "sma" THEN SmaNoRow ELSE EnvNoRow
    /\ position = PositionInit(params.leverage, params.open_fee_rate, params.close_fee_rate)
    /\ balance = params.initial_balance
    /\ trades_info = << >>
    /\ equity_record = << >>
    /\ previous_equity_update_time = Epoch
    /\ good_to_trade = TRUE
    /\ position_was_closed = FALSE
    /\ n_bands_hit = 0
    /\ last_position_side = Undefined
    /\ fills = << >>
    /\ legs = << >>
    /\ pre = Snapshot
    /\ data = << >>
    /\ run = 1
    /\ first = NoRun

\* One iteration of `for time, row in self.data.iterrows()`: evaluate_orders,
\* then update_equity_record unless the call ended the run.
\* the loop body sampling equity whether or not evaluate_orders ended the run
Iterate_samples_on_exit(st, r, interval) ==
    LET time == BarTime(params, n_bar)
        eq == update_equity_record(time, st.position, st.balance, r.close,
                                   previous_equity_update_time, interval, equity_record)
    IN  /\ row' = r
        /\ n_bar' = n_bar + 1
        /\ pre' = Snapshot
        /\ position' = st.position
        /\ balance' = st.balance
        /\ trades_info' = st.trades_info
        /\ good_to_trade' = st.good_to_trade
        /\ position_was_closed' = st.position_was_closed
        /\ n_bands_hit' = st.n_bands_hit
        /\ last_position_side' = st.last_position_side
        /\ fills' = st.fills
        /\ legs' = st.legs
        /\ pc' = IF st.status = "ok" THEN "running" ELSE st.status
        /\ equity_record' = eq.record
        /\ previous_equity_update_time' = eq.time
        /\ UNCHANGED << params, data, run, first >>

\* the loop body sampling the state the bar met, ahead of evaluate_orders
Iterate_samples_stale(st, r, interval) ==
    LET time == BarTime(params, n_bar)
        eq == update_equity_record(time, position, balance, r.close,
                                   previous_equity_update_time, interval, equity_record)
    IN  /\ row' = r
        /\ n_bar' = n_bar + 1
        /\ pre' = Snapshot
        /\ position' = st.position
        /\ balance' = st.balance
        /\ trades_info' = st.trades_info
        /\ good_to_trade' = st.good_to_trade
        /\ position_was_closed' = st.position_was_closed
        /\ n_bands_hit' = st.n_bands_hit
        /\ last_position_side' = st.last_position_side
        /\ fills' = st.fills
        /\ legs' = st.legs
        /\ pc' = IF st.status = "ok" THEN "running" ELSE st.status
        /\ equity_record' = IF st.status = "ok" THEN eq.record ELSE equity_record
        /\ previous_equity_update_time' =
               IF st.status = "ok" THEN eq.time ELSE previous_equity_update_time
        /\ UNCHANGED << params, data, run, first >>

Iterate(st, r, interval) ==
    LET time == BarTime(params, n_bar)
        eq == update_equity_record(time, st.position, st.balance, r.close,
                                   previous_equity_update_time, interval, equity_record)
    IN  /\ row' = r
        /\ n_bar' = n_bar + 1
        /\ pre' = Snapshot
        /\ position' = st.position
        /\ balance' = st.balance
        /\ trades_info' = st.trades_info
        /\ good_to_trade' = st.good_to_trade
        /\ position_was_closed' = st.position_was_closed
        /\ n_bands_hit' = st.n_bands_hit
        /\ last_position_side' = st.last_position_side
        /\ fills' = st.fills
        /\ legs' = st.legs
        /\ pc' = IF st.status = "ok" THEN "running" ELSE st.status
        /\ equity_record' = IF st.status = "ok" THEN eq.record ELSE equity_record
        /\ previous_equity_update_time' =
               IF st.status = "ok" THEN eq.time ELSE previous_equity_update_time
        /\ UNCHANGED << params, data, run, first >>

SmaBar ==
    /\ pc = "running"
    /\ params.engine = "sma"
    /\ n_bar < MaxBars
    /\ \E r \in SmaRows(row) :
          /\ Iterate(Sma_evaluate_orders(EngineState, params, BarTime(params, n_bar), r,
                                         row.fast_vs_slow),
                     r, SmaEquityInterval)

EnvBar ==
    /\ pc = "running"
    /\ params.engine = "env"
    /\ n_bar < MaxBars
    /\ \E r \in EnvRows(row) :
          /\ Iterate(Env_evaluate_orders(EngineState, params, BarTime(params, n_bar), r),
                     r, EnvEquityInterval)

\* The rows are exhausted: lines 195-197 (161-163) index the equity record by
\* "time", a KeyError when no sample was ever taken.
Finish ==
    /\ pc = "running"
    /\ pc' = IF equity_record = << >> THEN "crashed" ELSE "done"
    /\ UNCHANGED << params, n_bar, row, position, balance, trades_info, equity_record,
                    previous_equity_update_time, good_to_trade, position_was_closed,
                    n_bands_hit, last_position_side, fills, legs, pre, data, run, first >>

Next == SmaBar \/ EnvBar \/ Finish

Spec == Init /\ [][Next]_vars

-----------------------------------------------------------------------------
(* Strategy.__init__ followed by run_backtest, for the params a caller may   *)
(* hand over: any trade mode or none, any set of sizing keys.  given_mode    *)
(* records the mode as handed over ("absent" when params has no 'mode').     *)
(* Construct is __init__, which ends in set_trade_mode; the run_backtest     *)
(* assignments that follow it are those of Init.                             *)

ValidModes == {"long", "short", "both"}

\* set_trade_mode accepting whatever mode it is given
SetTradeModeRaises_never(p) == FALSE

\* lines 19-23 (22-26): setdefault, then the ValueError
SetTradeModeRaises(p) == p.mode # "absent" /\ p.mode \notin ValidModes

set_trade_mode(p) == [p EXCEPT !.mode = IF p.mode = "absent" THEN "both" ELSE p.mode]

SetupSma == [BaseConfig EXCEPT !.leverage = 10, !.position_size_fixed_amount = 5000]

SetupEnv == [EnvBase EXCEPT !.leverage = 10, !.stop_loss_pct = 10,
                            !.position_size_fixed_amount = 4000]

SetupConfigs ==
    { [mode |-> "sideways"] @@ [given_mode |-> "sideways"] @@ c : c \in {SetupSma, SetupEnv} }
    \cup
    { [mode |-> "absent"] @@ [given_mode |-> "absent"] @@ SetupEnv }
    \cup
    { [keys |-> k] @@ [given_mode |-> "both"] @@ c :
        k \in { {}, {"position_size_percentage", "position_size_fixed_amount"},
                {"position_size_exposure"} },
        c \in {SetupSma, SetupEnv} }

InitSetup ==
    /\ params \in SetupConfigs
    /\ pc = "constructing"
    /\ n_bar = 0
    /\ row = IF params.engine = "sma" THEN SmaNoRow ELSE EnvNoRow
    /\ position = PositionInit(params.leverage, params.open_fee_rate, params.close_fee_rate)
    /\ balance = params.initial_balance
    /\ trades_info = << >>
    /\ equity_record = << >>
    /\ previous_equity_update_time = Epoch
    /\ good_to_trade = TRUE
    /\ position_was_closed = FALSE
    /\ n_bands_hit = 0
    /\ last_position_side = Undefined
    /\ fills = << >>
    /\ legs = << >>
    /\ pre = Snapshot
    /\ data = << >>
    /\ run = 1
    /\ first = NoRun

Construct ==
    /\ pc = "constructing"
    /\ IF SetTradeModeRaises(params)
       THEN pc' = "rejected" /\ UNCHANGED params
       ELSE pc' = "running" /\ params' = set_trade_mode(params)
    /\ UNCHANGED << n_bar, row, position, balance, trades_info, equity_record,
                    previous_equity_update_time, good_to_trade, position_was_closed,
                    n_bands_hit, last_position_side, fills, legs, pre, data, run, first >>

NextSetup == Construct \/ SmaBar \/ EnvBar \/ Finish

SpecSetup == InitSetup /\ [][NextSetup]_vars

-----------------------------------------------------------------------------
(* Longer runs: the same engines over more bars, so that a ledger of several *)
(* entries is built, on a coarser price grid and for the configurations      *)
(* whose runs get past the first bar.                                        *)

MaxLedgerBars == 6

LedgerPrices == {900, 1000, 1120}

LedgerConfigs == { c \in Configs : c.engine = "sma" \/ c.mode = "both" }

SmaLedgerRows(last) ==
    { r \in SmaRows(last) : r.fast_vs_slow = "nan" \/ {r.high, r.low} \subseteq LedgerPrices }

EnvLedgerRows(last) ==
    { r \in EnvRows(last) : r.average = NaN \/ {r.high, r.low} \subseteq LedgerPrices }

InitLedger == Init /\ params \in LedgerConfigs

SmaLedgerBar ==
    /\ pc = "running"
    /\ params.engine = "sma"
    /\ n_bar < MaxLedgerBars
    /\ \E r \in SmaLedgerRows(row) :
          /\ Iterate(Sma_evaluate_orders(EngineState, params, BarTime(params, n_bar), r,
                                         row.fast_vs_slow),
                     r, SmaEquityInterval)

EnvLedgerBar ==
    /\ pc = "running"
    /\ params.engine = "env"
    /\ n_bar < MaxLedgerBars
    /\ \E r \in EnvLedgerRows(row) :
          /\ Iterate(Env_evaluate_orders(EngineState, params, BarTime(params, n_bar), r),
                     r, EnvEquityInterval)

NextLedger == SmaLedgerBar \/ EnvLedgerBar \/ Finish

SpecLedger == InitLedger /\ [][NextLedger]_vars

-----------------------------------------------------------------------------
(* run_backtest called twice on one envelope Strategy.  The instance holds   *)
(* self.data from its construction on, so the rows are fixed in the initial  *)
(* state and both calls iterate them; __init__ has run (lines 10-18) and the *)
(* first call has made its assignments (lines 174-181).  The second call     *)
(* makes the assignments of lines 174-181 again and nothing else.            *)

MaxRerunBars == 4

RerunPrices == {800, 900, 1000}

RerunConfigs == { c \in EnvConfigs : c.mode = "both" }

RerunWarmRows == { r \in EnvWarmRows : {r.high, r.low} \subseteq RerunPrices }

\* the frames a caller may hand over: NaN averages first (.shift(1)), values after
RerunData ==
    { << >> } \cup
    { cold \o warm :
        cold \in [1..1 -> EnvColdRows],
        warm \in UNION { [1..k -> RerunWarmRows] : k \in 0..(MaxRerunBars - 1) } }

InitRerun ==
    /\ params \in RerunConfigs
    /\ data \in RerunData
    /\ run = 1
    /\ first = NoRun
    /\ pc = "running"
    /\ n_bar = 0
    /\ row = EnvNoRow
    /\ position = PositionInit(params.leverage, params.open_fee_rate, params.close_fee_rate)
    /\ balance = params.initial_balance
    /\ trades_info = << >>
    /\ equity_record = << >>
    /\ previous_equity_update_time = Epoch
    /\ good_to_trade = TRUE
    /\ position_was_closed = FALSE
    /\ n_bands_hit = 0
    /\ last_position_side = Undefined
    /\ fills = << >>
    /\ legs = << >>
    /\ pre = Snapshot

\* lines 183-193 over self.data
DataBar ==
    /\ pc = "running"
    /\ n_bar < Len(data)
    /\ Iterate(Env_evaluate_orders(EngineState, params, BarTime(params, n_bar), data[n_bar + 1]),
               data[n_bar + 1], EnvEquityInterval)

\* lines 195-197, the rows being exhausted
DataFinish ==
    /\ pc = "running"
    /\ n_bar = Len(data)
    /\ pc' = IF equity_record = << >> THEN "crashed" ELSE "done"
    /\ UNCHANGED << params, n_bar, row, position, balance, trades_info, equity_record,
                    previous_equity_update_time, good_to_trade, position_was_closed,
                    n_bands_hit, last_position_side, fills, legs, pre, data, run, first >>

\* lines 174-181 on an instance whose first call has returned: balance,
\* position, last-sample time, ledger and equity record are assigned afresh;
\* good_to_trade, position_was_closed, n_bands_hit and last_position_side are
\* assigned by __init__ and evaluate_orders only and are left as they are.
RunAgain ==
    /\ pc = "done"
    /\ run = 1
    /\ run' = 2
    /\ first' = [ trades_info |-> trades_info, equity_record |-> equity_record ]
    /\ balance' = params.initial_balance
    /\ position' = PositionInit(params.leverage, params.open_fee_rate, params.close_fee_rate)
    /\ previous_equity_update_time' = Epoch
    /\ trades_info' = << >>
    /\ equity_record' = << >>
    /\ pc' = "running"
    /\ n_bar' = 0
    /\ row' = EnvNoRow
    /\ fills' = << >>
    /\ legs' = << >>
    /\ pre' = Snapshot
    /\ UNCHANGED << params, data, good_to_trade, position_was_closed, n_bands_hit,
                    last_position_side >>

NextRerun == DataBar \/ DataFinish \/ RunAgain

SpecRerun == InitRerun /\ [][NextRerun]_vars

-----------------------------------------------------------------------------
(* tools.py driven directly: a client that holds one Position and calls its  *)
(* methods, as the engines do, with arguments of its own choosing.  open is  *)
(* called on a flat position, add and close on an open one (the              *)
(* preconditions the engines are meant to keep); the check_for_* methods are *)
(* called on an open position with any row.  Here n_bar counts the calls,    *)
(* row is the row last handed to the checks, and pre records the last call:  *)
(* its name, the call before it, its arguments, the position it met and,     *)
(* for the checks, what they returned.                                       *)

MaxCalls == 3

PositionConfigs ==
    { [BaseConfig EXCEPT !.engine = "position", !.open_fee_rate = 0, !.close_fee_rate = 0],
      [BaseConfig EXCEPT !.engine = "position", !.leverage = 10,
                         !.open_fee_rate = 0, !.close_fee_rate = 0],
      [BaseConfig EXCEPT !.engine = "position", !.leverage = 2],
      [BaseConfig EXCEPT !.engine = "position", !.leverage = 10] }

PositionMargins == {100, 250}
PositionPrices == {800, 1000, 2000}
PositionStops == { [sl |-> 900, tp |-> 1100], [sl |-> 1100, tp |-> 900] }

\* rows whose close is strictly inside the bar's range, and quiet rows
PositionRows ==
    { r \in [ high : {1000, 1100}, low : {900, 1000}, close : {950, 1000, 1050} ] :
        r.low <= r.close /\ r.close <= r.high }

NoCall ==
    [ call |-> "none", prev_call |-> "none", position |-> position,
      side |-> "None", margin |-> None, price |-> None,
      sl |-> FALSE, tp |-> FALSE, liquidation |-> FALSE ]

Call(name, side, margin, price) ==
    [ call |-> name, prev_call |-> pre.call, position |-> position,
      side |-> side, margin |-> margin, price |-> price,
      sl |-> FALSE, tp |-> FALSE, liquidation |-> FALSE ]

InitPosition ==
    /\ params \in PositionConfigs
    /\ pc = "running"
    /\ n_bar = 0
    /\ row = [ high |-> 0, low |-> 0, close |-> 0 ]
    /\ position = PositionInit(params.leverage, params.open_fee_rate, params.close_fee_rate)
    /\ balance = params.initial_balance
    /\ trades_info = << >>
    /\ equity_record = << >>
    /\ previous_equity_update_time = Epoch
    /\ good_to_trade = TRUE
    /\ position_was_closed = FALSE
    /\ n_bands_hit = 0
    /\ last_position_side = Undefined
    /\ fills = << >>
    /\ legs = << >>
    /\ pre = NoCall
    /\ data = << >>
    /\ run = 1
    /\ first = NoRun

PositionUntouched ==
    UNCHANGED << params, balance, trades_info, equity_record, previous_equity_update_time,
                 good_to_trade, position_was_closed, n_bands_hit, last_position_side,
                 fills, legs, data, run, first >>

CallOpen ==
    /\ pc = "running" /\ n_bar < MaxCalls
    /\ position.side = "None"
    /\ \E side \in {"long", "short"}, margin \in PositionMargins,
          price \in PositionPrices, stops \in PositionStops :
          /\ position' = PositionOpen(position, n_bar, side, margin, price, "open",
                                      stops.sl, stops.tp)
          /\ pre' = Call("open", side, margin, price)
    /\ n_bar' = n_bar + 1
    /\ UNCHANGED << pc, row >>
    /\ PositionUntouched

CallAdd ==
    /\ pc = "running" /\ n_bar < MaxCalls
    /\ position.side # "None"
    /\ \E margin \in PositionMargins, price \in PositionPrices :
          /\ pre' = Call("add", position.side, margin, price)
          /\ IF PositionAddRaises(position, margin, price)
             THEN pc' = "crashed" /\ UNCHANGED position
             ELSE pc' = pc /\ position' = PositionAdd(position, margin, price, "add")
    /\ n_bar' = n_bar + 1
    /\ UNCHANGED row
    /\ PositionUntouched

CallClose ==
    /\ pc = "running" /\ n_bar < MaxCalls
    /\ position.side # "None"
    /\ \E price \in PositionPrices \cup {position.open_price} :
          /\ pre' = Call("close", position.side, None, price)
          /\ IF PositionCloseRaises(position)
             THEN pc' = "crashed" /\ position' = PositionCloseRaised(position, n_bar, price, "close")
             ELSE pc' = pc /\ position' = PositionClose(position, n_bar, price, "close")
    /\ n_bar' = n_bar + 1
    /\ UNCHANGED row
    /\ PositionUntouched

CallChecks ==
    /\ pc = "running" /\ n_bar < MaxCalls
    /\ position.side # "None"
    /\ \E r \in PositionRows :
          /\ row' = r
          /\ pre' = [Call("check", position.side, None, None) EXCEPT
                         !.sl = check_for_sl(position, r),
                         !.tp = check_for_tp(position, r),
                         !.liquidation = check_for_liquidation(position, r)]
    /\ n_bar' = n_bar + 1
    /\ UNCHANGED << pc, position >>
    /\ PositionUntouched

NextPosition == CallOpen \/ CallAdd \/ CallClose \/ CallChecks

SpecPosition == InitPosition /\ [][NextPosition]_vars

-----------------------------------------------------------------------------
(* Properties.  They are stated over the bar just evaluated: `row` is the    *)
(* bar, `pre` the engine state it met, the other variables the state it      *)
(* left.  A run an exception ended is discarded: its last bar is no bar of   *)
(* any property below.                                                       *)

BarDone == n_bar > 0 /\ pc \in {"running", "liquidated", "done"}
ClosedOnBar == Len(trades_info) > pre.n_trades
LastTrade == trades_info[Len(trades_info)]
WasOpen == pre.position.side # "None"

\* what the bar did to the position that was open when it came
BarOutcome ==
    IF pc = "liquidated" THEN "liquidation"
    ELSE IF ClosedOnBar THEN LastTrade.info.close_reason
    ELSE "none"

\* the close conditions of the bar, in the order of priority, for the position pos
FirstCloseInOrder(p, pos, r) ==
    IF pos.side = "long"
    THEN IF p.engine = "env" /\ p.has_price_jump
            /\ r.open * 100 <= pos.open_price * (100 - p.price_jump_pct) THEN "CA long"
         ELSE IF r.low <= pos.sl_price THEN "SL long"
         ELSE IF r.low <= pos.liquidation_price THEN "liquidation"
         ELSE IF p.engine = "sma" /\ r.high >= pos.tp_price THEN "TP long"
         ELSE IF p.engine = "sma" /\ r.fast_vs_slow = "lt" THEN "Exit long"
         ELSE IF p.engine = "env" /\ r.average # NaN /\ r.high >= r.average THEN "Exit long"
         ELSE "none"
    ELSE IF p.engine = "env" /\ p.has_price_jump
            /\ r.open * 100 >= pos.open_price * (100 + p.price_jump_pct) THEN "CA short"
         ELSE IF r.high >= pos.sl_price THEN "SL short"
         ELSE IF r.high >= pos.liquidation_price THEN "liquidation"
         ELSE IF p.engine = "sma" /\ r.low <= pos.tp_price THEN "TP short"
         ELSE IF p.engine = "sma" /\ r.fast_vs_slow = "gt" THEN "Exit short"
         ELSE IF p.engine = "env" /\ r.average # NaN /\ r.low <= r.average THEN "Exit short"
         ELSE "none"

\* C1: on a bar that meets an open position at most one close is taken, and it
\* is the first whose condition holds in the order adverse-open guard (envelope,
\* when price_jump_pct is set), stop-loss, liquidation, take-profit
\* (single-entry engine), signal exit.
C1_ClosePriority ==
    (BarDone /\ WasOpen) =>
        /\ Len(trades_info) <= pre.n_trades + 1
        /\ BarOutcome = FirstCloseInOrder(params, pre.position, row)

\* a bar on which stop-loss and take-profit both trigger closes by stop-loss
C1_Witness ==
    /\ BarDone /\ params.engine = "sma" /\ pre.position.side = "long"
    /\ row.low <= pre.position.sl_price /\ row.high >= pre.position.tp_price
    /\ ClosedOnBar /\ LastTrade.info.close_reason = "SL long"

\* the state a liquidation leaves: the bar changed nothing but stop the run
HaltedInPlace ==
    pc = "liquidated" =>
        /\ WasOpen /\ position = pre.position
        /\ Len(trades_info) = pre.n_trades
        /\ balance = pre.balance
        /\ Len(equity_record) = pre.n_equity
        /\ previous_equity_update_time = pre.previous_equity_update_time

\* C2: when the liquidation check fires the run halts at that bar: no ledger
\* entry is appended for the position in flight, the balance is not credited,
\* no equity sample is recorded for the bar, and no step follows (no later bar
\* is processed, no later sample taken).
C2_LiquidationHalts == [](HaltedInPlace) /\ [][pc # "liquidated"]_vars

\* a liquidation on a bar on which the sampler was due
C2_Witness ==
    /\ pc = "liquidated"
    /\ BarTime(params, n_bar - 1) - previous_equity_update_time
           >= (IF params.engine = "sma" THEN SmaEquityInterval ELSE EnvEquityInterval)

\* C3, as claimed: for every ledger entry the balance after the close equals
\* the balance before the margin of the first entry was debited, plus the
\* trade's initial_margin, plus its net_pnl.
C3_AsClaimed ==
    (BarDone /\ ClosedOnBar) =>
        LastTrade.close_balance =
            legs[1].balance_before + LastTrade.info.initial_margin + LastTrade.info.net_pnl

\* C3, amended: for every ledger entry the balance after the close equals the
\* balance just before the close (the entry's open_balance, all margins of the
\* trade already debited) plus initial_margin plus net_pnl, which is the
\* balance before the first entry's margin was debited plus net_pnl alone.
C3_Conservation ==
    (BarDone /\ ClosedOnBar) =>
        /\ LastTrade.open_balance = pre.balance
        /\ LastTrade.close_balance =
               LastTrade.open_balance + LastTrade.info.initial_margin + LastTrade.info.net_pnl
        /\ LastTrade.close_balance = legs[1].balance_before + LastTrade.info.net_pnl
        /\ balance = LastTrade.close_balance

\* a two-leg trade closed
C3_Witness ==
    /\ BarDone /\ ClosedOnBar /\ Len(legs) >= 2
    /\ LastTrade.info.initial_margin > 0 /\ LastTrade.info.net_pnl # 0

RECURSIVE SumNetPnl(_)
SumNetPnl(trades) ==
    IF trades = << >> THEN 0
    ELSE trades[1].info.net_pnl + SumNetPnl(Tail(trades))

\* C4: the balance changes only by the margin debited on an open or add and by
\* initial_margin + net_pnl credited on a close, so after any sequence of bars
\* balance + (margin of the open position, if any) = initial_balance + the
\* sum of net_pnl over the ledger.
C4_BalanceIdentity ==
    BarDone =>
        balance + (IF position.side # "None" THEN position.initial_margin ELSE 0)
            = params.initial_balance + SumNetPnl(trades_info)

\* C5: in the envelope engine a band already filled for the open position is
\* never filled again while that position remains open.
C5_NoRefill ==
    (BarDone /\ params.engine = "env" /\ position.side # "None") =>
        \A i, j \in 1..Len(legs) : i # j => legs[i].band # legs[j].band

\* C6: the watermark n_bands_hit is 0 after every bar that closed the position
\* (guard, stop-loss and signal exit alike); on every other bar it advances by
\* exactly one per filled band, and never goes down.
C6_Watermark ==
    (BarDone /\ params.engine = "env") =>
        IF ClosedOnBar
        THEN n_bands_hit = 0 /\ fills = << >>
        ELSE n_bands_hit = pre.n_bands_hit + Len(fills)

\* a signal exit of a two-leg position resets the watermark
C6_Witness ==
    /\ BarDone /\ params.engine = "env" /\ ClosedOnBar
    /\ LastTrade.info.close_reason \in {"Exit long", "Exit short"}
    /\ pre.n_bands_hit >= 2 /\ n_bands_hit = 0

NoFillOf(side) == \A k \in 1..Len(fills) : fills[k].side # side

SuspendedAfter(reason) ==
    /\ ~pre.good_to_trade /\ pre.n_trades > 0
    /\ trades_info[pre.n_trades].info.close_reason = reason

RowAbove == row.average # NaN /\ row.close > row.average
RowBelow == row.average # NaN /\ row.close < row.average

\* C8, as claimed: after an adverse-open guard close of a long no long entry
\* is opened on that bar or later until a bar whose close is above the
\* average (mirrored for a short), and entries are suspended on that side
\* only: a band trigger of the other side still opens a position.
C8_AsClaimed ==
    (BarDone /\ params.engine = "env") =>
        /\ BarOutcome = "CA long" => NoFillOf("long")
        /\ BarOutcome = "CA short" => NoFillOf("short")
        /\ (SuspendedAfter("CA long") /\ ~RowAbove) =>
               /\ NoFillOf("long")
               /\ EnvOpenShort(params, row, 1) => ~NoFillOf("short")
        /\ (SuspendedAfter("CA short") /\ ~RowBelow) =>
               /\ NoFillOf("short")
               /\ EnvOpenLong(params, row, 1) => ~NoFillOf("long")

\* C8, amended: after an adverse-open guard close of a long no entry on
\* either side is opened on that bar or on any later bar until a bar whose
\* close is above the average, on which the gate re-opens (mirrored for a
\* short, close below the average).
C8_GateSuspends ==
    (BarDone /\ params.engine = "env") =>
        /\ BarOutcome \in {"CA long", "CA short"} => (fills = << >> /\ ~good_to_trade)
        /\ (SuspendedAfter("CA long") /\ ~RowAbove) =>
               (fills = << >> /\ ~good_to_trade /\ position.side = "None")
        /\ (SuspendedAfter("CA short") /\ ~RowBelow) =>
               (fills = << >> /\ ~good_to_trade /\ position.side = "None")
        /\ (SuspendedAfter("CA long") /\ RowAbove) => good_to_trade
        /\ (SuspendedAfter("CA short") /\ RowBelow) => good_to_trade

\* a bar after the guard close, not above the average, with a band trigger of
\* the other side, opens nothing
C8_Witness ==
    /\ BarDone /\ params.engine = "env"
    /\ SuspendedAfter("CA long") /\ ~RowAbove
    /\ EnvOpenShort(params, row, 1)
    /\ fills = << >>

\* an entry condition of the engine holds on the bar
EntryTrigger ==
    IF params.engine = "sma"
    THEN \/ ~SmaIgnoreLongs(params) /\ SmaOpenLong(row, pre.fast_vs_slow)
         \/ ~SmaIgnoreShorts(params) /\ SmaOpenShort(row, pre.fast_vs_slow)
    ELSE params.mode = "both"
         /\ (EnvOpenLong(params, row, 1) \/ EnvOpenShort(params, row, 1))

GateOpen == params.engine = "sma" \/ good_to_trade

\* C9, as claimed: when a position is closed on a bar (not by liquidation) and
\* the gate is open, the entry conditions are evaluated on that bar, so a bar
\* whose entry condition holds opens a new position on the bar of the close.
C9_AsClaimed ==
    (BarDone /\ ClosedOnBar /\ GateOpen /\ EntryTrigger) => position.side # "None"

\* C9, amended: a bar that closes the position evaluates no entry: the
\* position is flat and no leg is filled when the bar ends, whatever its
\* entry signals and whether or not the gate is open; a new position is
\* opened on a later bar at the earliest.
C9_NoSameBarEntry ==
    (BarDone /\ ClosedOnBar) => (position.side = "None" /\ fills = << >>)

\* a signal exit with the gate open on a bar whose entry condition holds
C9_Witness ==
    /\ BarDone /\ ClosedOnBar /\ params.engine = "env" /\ good_to_trade
    /\ EntryTrigger
    /\ position.side = "None" /\ fills = << >>

\* C10: while the position is not flat, amount > 0 and liquidation_price is
\* defined and is the one computed from the current open_price.
C10_OpenPosition ==
    (BarDone /\ position.side # "None") =>
        /\ position.amount > 0
        /\ position.liquidation_price # None
        /\ position.liquidation_price = calculate_liquidation_price(position, position.open_price)

\* the position was flat when the entries of the bar were evaluated
FlatAtEntries == ~WasOpen \/ ClosedOnBar

\* C11: position.open is only invoked while the position is flat, and
\* position.add only while a position is open on the side of the triggering
\* band signal: no leg is added to a flat or closed position or to a position
\* of the other side.
C11_OpenAddDiscipline ==
    (BarDone /\ params.engine = "env") =>
        \A k \in 1..Len(fills) :
            /\ fills[k].call = "open" => (FlatAtEntries /\ k = 1)
            /\ fills[k].call = "add" => position.side = fills[k].side

EquityInterval == IF params.engine = "sma" THEN SmaEquityInterval ELSE EnvEquityInterval

SampledOnBar == Len(equity_record) > pre.n_equity

\* C12: equity samples are appended in strictly increasing time order, any two
\* consecutive samples are at least the configured interval apart, and at most
\* one sample is recorded per bar (the one of the bar's own time).
C12_EquitySpacing ==
    /\ \A i \in 1..(Len(equity_record) - 1) :
           /\ equity_record[i].time < equity_record[i + 1].time
           /\ equity_record[i + 1].time - equity_record[i].time >= EquityInterval
    /\ Len(equity_record) <= pre.n_equity + 1
    /\ SampledOnBar =>
           /\ equity_record[Len(equity_record)].time = BarTime(params, n_bar - 1)
           /\ previous_equity_update_time = BarTime(params, n_bar - 1)

\* two samples taken, and the bar just evaluated came too soon for a third
C12_Witness ==
    /\ BarDone /\ pc = "running" /\ Len(equity_record) >= 2 /\ ~SampledOnBar

\* the mark-to-market equity of the state, at the close of the last bar
MarkToMarket ==
    LET unrealized_pnl == calculate_pnl(position, row.close, position.amount)
        close_fee == ((position.open_notional_value + unrealized_pnl) * position.close_fee_rate)
                         \div RateDen
    IN  balance + position.initial_margin + unrealized_pnl - position.open_fee - close_fee

\* C13: after a run that completes without liquidation the final equity
\* sample equals the final balance if the position is flat at the end of the
\* run, and the mark-to-market formula on the final state otherwise.
C13_FinalEquity ==
    pc = "done" =>
        equity_record[Len(equity_record)].equity =
            (IF position.side = "None" THEN balance ELSE MarkToMarket)

\* a leg was filled on the bar and the position it went to is open
FilledOnBar == BarDone /\ fills # << >> /\ position.side # "None"

\* C14: immediately after every open and every add the liquidation price is
\* open_price * (1 - 1/leverage) for a long and open_price * (1 + 1/leverage)
\* for a short, open_price being the current weighted-average open price; the
\* fees paid do not enter it.  A long at 100 with leverage 10 gives 90, a
\* short at 100 with leverage 10 gives 110.
C14_LiquidationPrice ==
    FilledOnBar =>
        /\ position.side = "long" =>
               position.liquidation_price =
                   (position.open_price * (position.leverage - 1)) \div position.leverage
        /\ position.side = "short" =>
               position.liquidation_price =
                   (position.open_price * (position.leverage + 1)) \div position.leverage
        /\ (position.leverage = 10 /\ position.open_price = 1000) =>
               position.liquidation_price = (IF position.side = "long" THEN 900 ELSE 1100)

\* a leveraged position with fees paid takes a second leg that moves its open price
C14_Witness ==
    /\ FilledOnBar /\ Len(legs) >= 2 /\ fills[Len(fills)].call = "add"
    /\ position.leverage > 1 /\ position.open_fee > 0
    /\ position.open_price # BandLow(params, row, 1)
    /\ position.open_price # BandHigh(params, row, 1)

\* the side of the position when leg k of the bar was filled
SideBefore(k) == IF fills[k].call = "open" THEN "None" ELSE position.side

\* C20: the single-entry engine opens at most one position per bar, and only
\* when the position is flat as the bar's evaluation starts; the long entry
\* is tested first, so a bar with both entry signals true in mode "both" opens
\* the long and not the short.  In the envelope engine the long trigger of a
\* band is tested before its short trigger, so when both triggers of the
\* first band hold while flat a long is opened.
C20_EntryOrder ==
    /\ (BarDone /\ params.engine = "sma") =>
           /\ Len(fills) <= 1
           /\ fills # << >> => (~WasOpen /\ fills[1].call = "open"
                                  /\ position.side = fills[1].side)
           /\ (~WasOpen /\ ~SmaIgnoreLongs(params) /\ SmaOpenLong(row, pre.fast_vs_slow)) =>
                  (Len(fills) = 1 /\ fills[1].side = "long")
           /\ (fills # << >> /\ fills[1].side = "short") =>
                  (SmaIgnoreLongs(params) \/ ~SmaOpenLong(row, pre.fast_vs_slow))
    /\ (BarDone /\ params.engine = "env") =>
           /\ \A k \in 1..Len(fills) :
                  fills[k].side = "short" =>
                      (SideBefore(k) = "short" \/ ~EnvOpenLong(params, row, fills[k].band))
           /\ (~WasOpen /\ good_to_trade /\ pre.n_bands_hit = 0
                  /\ EnvOpenLong(params, row, 1) /\ EnvOpenShort(params, row, 1)) =>
                  (fills # << >> /\ fills[1] = Leg(1, "long", "open", fills[1].margin, pre.balance)
                      /\ position.side = "long")

\* both triggers of the first band hold on a bar that meets a flat position
C20_Witness ==
    /\ BarDone /\ params.engine = "env" /\ ~WasOpen /\ pre.n_bands_hit = 0
    /\ EnvOpenLong(params, row, 1) /\ EnvOpenShort(params, row, 1)
    /\ position.side = "long" /\ NoFillOf("short")

\* C23: the close price recorded for a trade is determined by its close
\* reason: a stop-loss close is at the position's sl_price, a take-profit
\* close at its tp_price, an adverse-open guard close at the bar's open, a
\* signal exit at the reference price: the reference average in the envelope
\* engine, the bar's close in the single-entry engine.
C23_ClosePrice ==
    (BarDone /\ ClosedOnBar) =>
        LET reason == LastTrade.info.close_reason
            price == LastTrade.info.close_price
        IN  /\ reason \in {"SL long", "SL short"} => price = pre.position.sl_price
            /\ reason \in {"TP long", "TP short"} => price = pre.position.tp_price
            /\ reason \in {"CA long", "CA short"} => price = row.open
            /\ reason \in {"Exit long", "Exit short"} =>
                   price = (IF params.engine = "env" THEN row.average ELSE row.close)
            /\ reason \in {"SL long", "SL short", "TP long", "TP short",
                            "CA long", "CA short", "Exit long", "Exit short"}
            /\ position.close_price = price

\* a guard close at an open below the stop, on a bar that also touches the average
C23_Witness ==
    /\ BarDone /\ ClosedOnBar /\ LastTrade.info.close_reason = "CA long"
    /\ LastTrade.info.close_price = row.open
    /\ row.open < pre.position.sl_price /\ row.high >= row.average

\* C24: the sampler's last-sample time changes only on a bar on which a sample
\* is taken, and then becomes that bar's time; on every other bar it is
\* unchanged.  As it starts at the 1900-01-01 sentinel, the first bar
\* processed always produces a sample.
C24_LastSampleTime ==
    (BarDone /\ pc # "liquidated") =>
        /\ IF SampledOnBar
           THEN previous_equity_update_time = BarTime(params, n_bar - 1)
           ELSE previous_equity_update_time = pre.previous_equity_update_time
        /\ pre.previous_equity_update_time = Epoch => SampledOnBar
        /\ equity_record # << >> /\ equity_record[1].time = BarTime(params, 0)
        /\ previous_equity_update_time = equity_record[Len(equity_record)].time

\* the second bar comes too soon after the first: no sample, the time stays
C24_Witness ==
    /\ BarDone /\ n_bar = 2 /\ ~SampledOnBar
    /\ previous_equity_update_time = BarTime(params, 0)
    /\ Len(equity_record) = 1

\* C25: every recorded equity sample equals the balance at the end of that
\* bar's order evaluation if the position is flat, and otherwise balance +
\* initial_margin + unrealized_pnl - open_fee - (open_notional_value +
\* unrealized_pnl) * close_fee_rate, unrealized_pnl taken at the bar's close;
\* a sample on the bar that closed a position equals the post-close balance.
C25_SampleValue ==
    (BarDone /\ SampledOnBar) =>
        LET sample == equity_record[Len(equity_record)]
            unrealized_pnl ==
                IF position.side = "long"
                THEN (position.amount * (row.close - position.open_price)) \div AmountScale
                ELSE (position.amount * (position.open_price - row.close)) \div AmountScale
        IN  /\ sample.price = row.close
            /\ position.side = "None" => sample.equity = balance
            /\ position.side # "None" =>
                   sample.equity = balance + position.initial_margin + unrealized_pnl
                       - position.open_fee
                       - ((position.open_notional_value + unrealized_pnl)
                              * position.close_fee_rate) \div RateDen
            /\ ClosedOnBar => sample.equity = LastTrade.close_balance

\* a sample on the bar that closed a trade with a loss
C25_Witness ==
    /\ BarDone /\ SampledOnBar /\ ClosedOnBar
    /\ LastTrade.info.net_pnl < 0
    /\ equity_record[Len(equity_record)].equity = balance
    /\ balance # pre.balance

RECURSIVE SumMargin(_)
SumMargin(ls) == IF ls = << >> THEN 0 ELSE ls[1].margin + SumMargin(Tail(ls))

PercentageMode == "position_size_percentage" \in params.keys

\* the margin of one leg, from the balance snapshot taken before the band loop
LegMargin(snapshot) ==
    IF PercentageMode
    THEN (snapshot * Round4Div(params.position_size_percentage, NBands(params))) \div 10000
    ELSE Round4Div(params.position_size_fixed_amount * 100, NBands(params)) \div 10000

\* C26: in the envelope engine every leg filled on one bar commits the same
\* margin, computed from the balance snapshot taken before the band loop:
\* balance * round(pct / 100 / N, 4) in percentage mode, round(fixed / N, 4) in
\* fixed mode, N the number of bands; it is not computed from the balance as
\* the earlier legs of the bar reduced it.  The margin committed on one bar
\* never exceeds the entry budget applied to the snapshot, up to the rounding
\* to four decimals.
C26_LegMargin ==
    (BarDone /\ params.engine = "env" /\ fills # << >>) =>
        /\ \A k \in 1..Len(fills) : fills[k].margin = LegMargin(pre.balance)
        /\ fills[1].balance_before = pre.balance
        /\ Len(fills) <= NBands(params)
        /\ balance = pre.balance - SumMargin(fills)
        /\ (PercentageMode /\ pre.balance >= 0) =>
               SumMargin(fills) * 10000
                   <= pre.balance * (params.position_size_percentage * 100 + NBands(params))
        /\ ~PercentageMode =>
               SumMargin(fills) <= params.position_size_fixed_amount + NBands(params)

\* two legs of one bar in percentage mode, the second sized like the first
C26_Witness ==
    /\ BarDone /\ params.engine = "env" /\ PercentageMode /\ Len(fills) >= 2
    /\ fills[1].margin > 0 /\ fills[2].margin = fills[1].margin
    /\ fills[2].balance_before < fills[1].balance_before

\* C27: in the envelope engine, after every fill (open or add) sl_price is the
\* stop-loss level of the current weighted-average open_price, open_price *
\* (1 - stop_loss_pct) for a long and open_price * (1 + stop_loss_pct) for a
\* short; it is never left at the level of an earlier leg.
C27_StopFollowsAverage ==
    (FilledOnBar /\ params.engine = "env") =>
        position.sl_price =
            (IF position.side = "long"
             THEN (position.open_price * (100 - params.stop_loss_pct)) \div 100
             ELSE (position.open_price * (100 + params.stop_loss_pct)) \div 100)

\* a second leg on a later bar has moved the average and the stop with it
C27_Witness ==
    /\ FilledOnBar /\ params.engine = "env" /\ WasOpen
    /\ fills[Len(fills)].call = "add"
    /\ position.open_price # pre.position.open_price
    /\ position.sl_price # pre.position.sl_price

GuardReasons == {"CA long", "CA short", "SL long", "SL short"}
ExitReasons == {"Exit long", "Exit short"}

\* the previous bar ended in a signal exit
AfterSignalExit ==
    /\ pre.n_trades > 0 /\ pre.position.side = "None"
    /\ trades_info[pre.n_trades].info.close_reason \in ExitReasons
    /\ trades_info[pre.n_trades].info.close_time = BarTime(params, n_bar - 2)

\* C28: in the envelope engine the good-to-trade gate is closed by an
\* adverse-open guard close and by a stop-loss close, and by nothing else; a
\* signal exit leaves the gate open and blocks the entries of that bar only
\* (position_was_closed is cleared as the next bar starts).  The gate re-opens
\* only at the start of a bar whose close is strictly above the average when
\* the last side was long, strictly below it when the last side was short.
C28_Gate ==
    (BarDone /\ params.engine = "env") =>
        /\ (pre.good_to_trade /\ ~good_to_trade) => BarOutcome \in GuardReasons
        /\ BarOutcome \in GuardReasons => ~good_to_trade
        /\ BarOutcome \in ExitReasons =>
               (good_to_trade /\ position_was_closed /\ fills = << >>)
        /\ position_was_closed <=> BarOutcome \in ExitReasons
        /\ (~pre.good_to_trade /\ good_to_trade) =>
               \/ pre.last_position_side = "long" /\ RowAbove
               \/ pre.last_position_side = "short" /\ RowBelow
        /\ (~pre.good_to_trade /\ pre.last_position_side = "long") =>
               (good_to_trade <=> RowAbove)
        /\ (~pre.good_to_trade /\ pre.last_position_side = "short") =>
               (good_to_trade <=> RowBelow)

\* the bar after a signal exit opens a new position
C28_Witness ==
    /\ BarDone /\ params.engine = "env" /\ AfterSignalExit
    /\ pre.good_to_trade /\ fills # << >> /\ position.side # "None"

\* the side a close reason names
ClosedSide(reason) ==
    IF reason \in {"CA long", "SL long", "Exit long"} THEN "long" ELSE "short"

\* C29: in the envelope engine, in every state at the end of a bar: if the
\* good-to-trade gate is closed then the position is flat, the watermark is
\* 0, and last_position_side is defined and is the side of the most recently
\* closed position, so that the gate's re-open check never reads an undefined
\* side.
C29_ClosedGate ==
    (params.engine = "env" /\ ~good_to_trade) =>
        /\ last_position_side # Undefined
        /\ BarDone =>
               /\ position.side = "None"
               /\ n_bands_hit = 0
               /\ trades_info # << >>
               /\ last_position_side = ClosedSide(LastTrade.info.close_reason)

\* a bar that meets the closed gate with a band trigger and leaves it closed
C29_Witness ==
    /\ BarDone /\ params.engine = "env" /\ ~pre.good_to_trade /\ ~good_to_trade
    /\ EnvOpenLong(params, row, 1)
    /\ n_bands_hit = 0 /\ last_position_side = "long"

\* C30: for every closed trade the realised loss never exceeds the committed
\* margin, initial_margin + net_pnl >= 0 for every ledger entry, so a close
\* never credits a negative amount and a balance that starts non-negative
\* never becomes negative.
C30_LossWithinMargin ==
    /\ \A k \in 1..Len(trades_info) :
           /\ trades_info[k].info.initial_margin + trades_info[k].info.net_pnl >= 0
           /\ trades_info[k].close_balance >= trades_info[k].open_balance
    /\ balance >= 0

\* the fields Position.close does not assign
Retained(pos) ==
    [ open_time |-> pos.open_time, open_price |-> pos.open_price, amount |-> pos.amount,
      initial_margin |-> pos.initial_margin, open_fee |-> pos.open_fee,
      open_notional_value |-> pos.open_notional_value, leverage |-> pos.leverage,
      open_fee_rate |-> pos.open_fee_rate, close_fee_rate |-> pos.close_fee_rate,
      sl_price |-> pos.sl_price, tp_price |-> pos.tp_price,
      liquidation_price |-> pos.liquidation_price ]

\* C22: Position.close changes only the close fields and side; open_time,
\* open_price, amount, initial_margin, open_fee, open_notional_value, leverage,
\* the fee rates, sl_price, tp_price and liquidation_price are left as they
\* were, and stay so until the next open.
C22_CloseFrame ==
    BarDone =>
        /\ ClosedOnBar => Retained(position) = Retained(pre.position)
        /\ (position.side = "None" /\ pre.position.side = "None") =>
               Retained(position) = Retained(pre.position)

\* C33: in the envelope engine a bar never reads a signal of the side the
\* trade mode disabled, so in mode "long" and in mode "short" every bar is
\* evaluated without an exception, the bars on which the position is flat
\* and no band of the enabled side triggers included.
C33_DisabledSideUnread ==
    (params.engine = "env" /\ params.mode \in {"long", "short"} /\ n_bar > 0) =>
        pc # "crashed"

-----------------------------------------------------------------------------
(* Properties of the longer runs (SpecLedger) *)

\* C31: the ledger is in time order and its entries do not overlap: every
\* entry was opened strictly before it was closed (no position is closed on
\* the bar that opened it), and every entry was opened strictly after the
\* entry before it was closed.
C31_LedgerOrder ==
    \A k \in 1..Len(trades_info) :
        /\ trades_info[k].info.open_time < trades_info[k].info.close_time
        /\ k > 1 => trades_info[k].info.open_time > trades_info[k - 1].info.close_time

\* two entries in the ledger, the second opened and closed after the first
C31_Witness ==
    /\ Len(trades_info) >= 2
    /\ pc \in {"running", "done"}
    /\ trades_info[1].info.close_time < trades_info[2].info.open_time
    /\ trades_info[2].info.open_time < trades_info[2].info.close_time

-----------------------------------------------------------------------------
(* Properties of the repeated run (SpecRerun) *)

\* C32: a second call of run_backtest on the same envelope instance starts
\* from a clean engine state (flat position, gate open, watermark 0) and,
\* over the same rows, ends with the ledger and the equity record of the
\* first call, whatever state the first call ended in.
C32_RerunReproduces ==
    run = 2 =>
        /\ n_bar = 0 => /\ position.side = "None"
                        /\ good_to_trade
                        /\ n_bands_hit = 0
        /\ pc # "running" => /\ pc = "done"
                             /\ trades_info = first.trades_info
                             /\ equity_record = first.equity_record

-----------------------------------------------------------------------------
(* Properties of tools.py driven directly (SpecPosition): pre is the last    *)
(* call, pre.position the position it met, position the position it left.   *)

Returned(name) == pc = "running" /\ pre.call = name

ZeroFees == position.open_fee_rate = 0 /\ position.close_fee_rate = 0

\* C15: for either side, any leverage, any margin and any price, a position
\* opened and immediately closed at its open price with open and close fee
\* rates of zero has net_pnl = 0 exactly, and net_pnl_pct = 0.
C15_RoundTrip ==
    (Returned("close") /\ pre.prev_call = "open" /\ ZeroFees
        /\ pre.price = pre.position.open_price) =>
        /\ position.net_pnl = 0
        /\ position.net_pnl_pct = 0
        /\ position.close_notional_value = position.open_notional_value
        /\ position.side = "None"

\* a leveraged short opened and closed at one price, without fees
C15_Witness ==
    /\ Returned("close") /\ pre.prev_call = "open" /\ ZeroFees
    /\ pre.price = pre.position.open_price
    /\ pre.side = "short" /\ position.leverage > 1 /\ position.net_pnl = 0

\* the metrics of the leg the last call added
AddedLeg ==
    LET gross == pre.margin * position.leverage
        fee == (gross * position.open_fee_rate) \div RateDen
    IN  [ fee |-> fee, notional |-> gross - fee,
          amount |-> ((gross - fee) * AmountScale) \div pre.price ]

\* C16: Position.add sets open_price to the amount-weighted average
\* (old_open * old_amount + price * new_amount) / (old_amount + new_amount),
\* new_amount being the fee-net notional of the new leg over its price, and
\* adds the leg's values to initial_margin, open_fee, open_notional_value and
\* amount.  A long of margin 100 at 100 with leverage 1 and no fee, then 100
\* more at 200, has open_price 400/3 and amount 1.5.
C16_WeightedAverage ==
    Returned("add") =>
        LET old == pre.position
        IN  /\ position.open_price =
                   (old.open_price * old.amount + pre.price * AddedLeg.amount)
                       \div (old.amount + AddedLeg.amount)
            /\ position.initial_margin = old.initial_margin + pre.margin
            /\ position.open_fee = old.open_fee + AddedLeg.fee
            /\ position.open_notional_value = old.open_notional_value + AddedLeg.notional
            /\ position.amount = old.amount + AddedLeg.amount
            /\ (ZeroFees /\ position.leverage = 1 /\ pre.prev_call = "open"
                   /\ old.initial_margin = 100 /\ old.open_price = 1000
                   /\ pre.margin = 100 /\ pre.price = 2000) =>
                   (position.open_price = (400 * 10) \div 3
                       /\ position.amount * 10 * 10 = 15 * AmountScale)

\* the example of the claim
C16_Witness ==
    /\ Returned("add") /\ ZeroFees /\ position.leverage = 1 /\ pre.prev_call = "open"
    /\ pre.side = "long"
    /\ pre.position.initial_margin = 100 /\ pre.position.open_price = 1000
    /\ pre.margin = 100 /\ pre.price = 2000
    /\ position.initial_margin = 200

\* C17: the trigger checks use the bar's extremes and never its close, the
\* boundaries included: for a long, stop-loss iff low <= sl_price, take-profit
\* iff high >= tp_price, liquidation iff low <= liquidation_price; for a short,
\* stop-loss iff high >= sl_price, take-profit iff low <= tp_price,
\* liquidation iff high >= liquidation_price.
C17_TriggersOnExtremes ==
    Returned("check") =>
        IF position.side = "long"
        THEN /\ pre.sl = (row.low <= position.sl_price)
             /\ pre.tp = (row.high >= position.tp_price)
             /\ pre.liquidation = (row.low <= position.liquidation_price)
        ELSE /\ pre.sl = (row.high >= position.sl_price)
             /\ pre.tp = (row.low <= position.tp_price)
             /\ pre.liquidation = (row.high >= position.liquidation_price)

\* a wick touches the stop of a long exactly while the close stays above it
C17_Witness ==
    /\ Returned("check") /\ position.side = "long"
    /\ row.low = position.sl_price /\ row.close > position.sl_price
    /\ pre.sl /\ ~pre.tp

\* C21: Position.close computes pnl = amount * (price - open_price) for a long
\* and amount * (open_price - price) for a short, close_notional_value =
\* open_notional_value + pnl, close_fee = close_notional_value * close_fee_rate,
\* net_pnl = pnl - open_fee - close_fee with open_fee the fee accumulated over
\* all entries, net_pnl_pct = net_pnl / initial_margin * 100, and resets side
\* to flat.
C21_CloseArithmetic ==
    Returned("close") =>
        LET old == pre.position
            pnl == IF pre.side = "long"
                   THEN (old.amount * (pre.price - old.open_price)) \div AmountScale
                   ELSE (old.amount * (old.open_price - pre.price)) \div AmountScale
            fee == ((old.open_notional_value + pnl) * old.close_fee_rate) \div RateDen
        IN  /\ position.close_price = pre.price
            /\ position.close_notional_value = old.open_notional_value + pnl
            /\ position.close_fee = fee
            /\ position.net_pnl = pnl - old.open_fee - fee
            /\ position.net_pnl_pct = ((pnl - old.open_fee - fee) * 100) \div old.initial_margin
            /\ position.side = "None"

\* a short of two legs, fees paid on both, closed in profit
C21_Witness ==
    /\ Returned("close") /\ pre.prev_call = "add" /\ pre.side = "short"
    /\ pre.position.open_fee > 0 /\ pre.price < pre.position.open_price
    /\ position.net_pnl > 0 /\ position.close_fee > 0

-----------------------------------------------------------------------------
(* Properties of construction (SpecSetup) *)

\* the sizing keys each engine looks for
RecognisedSizingKeys ==
    IF params.engine = "sma"
    THEN {"position_size_percentage", "position_size_exposure", "position_size_fixed_amount"}
    ELSE {"position_size_percentage", "position_size_fixed_amount"}

SizingWellSpecified == Cardinality(params.keys \cap RecognisedSizingKeys) = 1

NothingRun ==
    /\ n_bar = 0 /\ balance = params.initial_balance /\ position.side = "None"
    /\ trades_info = << >> /\ equity_record = << >>

\* C18: a configuration whose sizing mode is unsupported (no recognised sizing
\* key) or multiply specified (more than one) is rejected with an error at
\* setup time, before any bar is processed and before balance or position
\* change.
C18_SizingRejected ==
    ~SizingWellSpecified => (pc \in {"constructing", "rejected"} /\ NothingRun)

\* C19: a trade mode other than "long", "short" or "both" raises an error when
\* the strategy is constructed, before any bar is processed; an absent mode
\* defaults to "both".
C19_ModeValidated ==
    /\ params.given_mode \notin (ValidModes \cup {"absent"}) =>
           (pc \in {"constructing", "rejected"} /\ NothingRun)
    /\ params.given_mode \in (ValidModes \cup {"absent"}) => pc # "rejected"
    /\ (params.given_mode = "absent" /\ pc # "constructing") => params.mode = "both"
    /\ pc \notin {"constructing", "rejected"} => params.mode \in ValidModes

\* the constructor has refused the mode "sideways"
C19_Witness ==
    pc = "rejected" /\ params.given_mode = "sideways" /\ NothingRun

====
